---- MODULE Spec2Model ----
(***************************************************************************)
(* The asynchronous analysis pipeline of the SecureCode service            *)
(* (service/index.js, service/database.js): POST /analyze inserts a        *)
(* pending analysis record, starts analyzeCode in the background, answers  *)
(* the caller, and the background promise chain later records the terminal *)
(* state; GET /analysis/:id reads a record.  Before the insert the handler *)
(* extracts the archive into a temporary directory and scans it            *)
(* (service/utils.js).  peerProxy.js relays WebSocket messages between the *)
(* connected clients and drops the clients that do not answer pings.       *)
(*                                                                         *)
(* Node runs every callback to completion: one action of this module is    *)
(* one stretch of code between two I/O suspension points (the completion   *)
(* of a store operation, the settlement of one inference call).            *)
(***************************************************************************)
EXTENDS Integers, Sequences, FiniteSets, TLC

VARIABLES analysisCollection, task, lastGet, request,
          globalWebSocket, socket, lastMessage,
          analyses, lastHistory, lastStats, lastReport,
          userCollection, session, issued, lastAuth,
          wsClient

vars == <<analysisCollection, task, lastGet, request,
          globalWebSocket, socket, lastMessage,
          analyses, lastHistory, lastStats, lastReport,
          userCollection, session, issued, lastAuth,
          wsClient>>

\* the requests of POST /analyze on their way to DB.addAnalysis
intakeVars == <<request>>

\* peerProxy.js
relayVars == <<globalWebSocket, socket, lastMessage>>

\* the in-memory array of index.js:81 and the last answers of GET
\* /analysis/history, GET /stats and GET /analysis/:id/report
readVars == <<analyses, lastHistory, lastStats, lastReport>>

\* the user collection, the browsers' cookies and handlers, the tokens drawn
\* and the last verdict of verifyAuth
authVars == <<userCollection, session, issued, lastAuth>>

\* the WebSocketClient of the analyzer page (src/utils/websocket.js)
clientVars == <<wsClient>>

(***************************************************************************)
(* Bounds of the model.                                                    *)
(***************************************************************************)
\* Spec: number of POST /analyze requests that insert a record
MaxJobs == 2
\* SpecRun: largest number of code files of the one submission it follows
MaxFiles == 4
\* SpecIntake: number of POST /analyze requests received
MaxRequests == 2
\* SpecRelay: number of WebSocket connections accepted
MaxClients == 3
\* SpecRelay: number of interval ticks a connection is followed through
MaxTicks == 2

(***************************************************************************)
(* Program constants.                                                      *)
(***************************************************************************)
batchSize == 3

(***************************************************************************)
(* Users (req.user as set by verifyAuth): email and role.                  *)
(***************************************************************************)
Users == {"alice", "bob", "root"}

\* the users who submit code in this model; every user reads
Submitters == {"alice", "bob"}

\* POST /analyze uses req.user only for the document's userEmail: where the
\* reader of a document is its owner or nobody, one user sends the requests
Uploaders == {"alice"}

role(u) == IF u = "root" THEN "admin" ELSE "user"

(***************************************************************************)
(* Optional values (a field that may be undefined) are sequences of length *)
(* at most one.                                                            *)
(***************************************************************************)
Absent == <<>>

Some(x) == <<x>>

Min(a, b) == IF a < b THEN a ELSE b

(***************************************************************************)
(* What the inference collaborator can answer for one file.                *)
(* A resolved call carries the text of the completion: JSON of the         *)
(* requested shape, JSON of another shape, or text that JSON.parse         *)
(* rejects.  A rejected call carries an Error with a message.              *)
(*   json             JSON.parse accepts the text                          *)
(*   type             what the text denotes: an object, null, a number     *)
(*   vulnerabilities  the value's vulnerabilities property; a value        *)
(*                    without one has the empty list here, which the code  *)
(*                    treats alike (lines 406, 413)                        *)
(***************************************************************************)
Finding(t, s, d) == [type |-> t, severity |-> s, description |-> d]

\* what reading a property the object does not have yields
undefined == "<undefined>"

Contents ==
  { [json |-> TRUE, type |-> "object",
     vulnerabilities |-> <<Finding("XSS", "High", "innerHTML")>>],
    [json |-> TRUE, type |-> "object",
     vulnerabilities |-> <<Finding("SQL Injection", "medium", "concat"),
                           Finding("Hardcoded secrets", "Critical", "apiKey")>>],
    \* {"vulnerabilities": [{"type": "XSS", "description": "innerHTML"}]}
    [json |-> TRUE, type |-> "object",
     vulnerabilities |-> <<Finding("XSS", undefined, "innerHTML")>>],
    \* null
    [json |-> TRUE, type |-> "null", vulnerabilities |-> <<>>],
    \* 42
    [json |-> TRUE, type |-> "number", vulnerabilities |-> <<>>],
    \* text that is not JSON
    [json |-> FALSE, type |-> "text", vulnerabilities |-> <<>>] }

\* messages of the errors the inference client rejects with; an Error built
\* without a message has the empty message
Messages == {"Connection error.", ""}

StoreError == "store unavailable"

\* String.prototype.toLowerCase on the severities that occur
toLowerCase(s) ==
  CASE s = "High" -> "high"
    [] s = "Critical" -> "critical"
    [] OTHER -> s

(***************************************************************************)
(* analyzeCodeWithAI, once the completion has arrived: JSON.parse of the   *)
(* content, and the synthetic finding when it throws.                      *)
(***************************************************************************)
AnalysisError ==
  Finding("Analysis Error", "info", "Failed to parse analysis results")

\* the catch block returning an empty list instead of the synthetic finding
analyzeCodeWithAIEmpty(content) ==
  [type |-> IF content.json THEN content.type ELSE "object",
   vulnerabilities |-> content.vulnerabilities]

analyzeCodeWithAI(content) ==
  IF content.json
    THEN [type |-> content.type, vulnerabilities |-> content.vulnerabilities]
    ELSE [type |-> "object", vulnerabilities |-> <<AnalysisError>>]

(***************************************************************************)
(* analyzeCode: the results object and the processing of one batch.        *)
(***************************************************************************)
EmptyResults ==
  [files |-> <<>>,
   summary |-> [highSeverity |-> 0, mediumSeverity |-> 0, lowSeverity |-> 0]]

\* files.slice(i, i + batchSize), as the set of its (1-based) positions
BatchPositions(n, i) == (i + 1)..Min(i + batchSize, n)

\* the entry pushed to results.files for one file
fileResult(path, aiAnalysis) ==
  [path |-> path,
   vulnerabilities |->
     [k \in 1..Len(aiAnalysis.vulnerabilities) |->
        [description |-> aiAnalysis.vulnerabilities[k].description,
         severity |-> toLowerCase(aiAnalysis.vulnerabilities[k].severity)]]]

\* vuln.severity compared without toLowerCase()
CountSeverityAsReturned(summary, vuln) ==
  IF vuln.severity = "high"
    THEN [summary EXCEPT !.highSeverity = @ + 1]
    ELSE IF vuln.severity = "medium"
      THEN [summary EXCEPT !.mediumSeverity = @ + 1]
      ELSE [summary EXCEPT !.lowSeverity = @ + 1]

\* the summary after counting one finding
CountSeverity(summary, vuln) ==
  LET severity == toLowerCase(vuln.severity) IN
  IF severity = "high"
    THEN [summary EXCEPT !.highSeverity = @ + 1]
    ELSE IF severity = "medium"
      THEN [summary EXCEPT !.mediumSeverity = @ + 1]
      ELSE [summary EXCEPT !.lowSeverity = @ + 1]

RECURSIVE CountAll(_, _)
CountAll(summary, vulns) ==
  IF vulns = <<>> THEN summary
  ELSE CountAll(CountSeverity(summary, Head(vulns)), Tail(vulns))

\* results.files.unshift(fileResult) instead of push
RECURSIVE ProcessBatchUnshift(_, _, _, _, _)
ProcessBatchUnshift(results, files, batchResults, from, to) ==
  IF from > to THEN results
  ELSE LET aiAnalysis == batchResults[from] IN
       ProcessBatchUnshift(
         [files |-> <<fileResult(files[from], aiAnalysis)>> \o results.files,
          summary |-> CountAll(results.summary, aiAnalysis.vulnerabilities)],
         files, batchResults, from + 1, to)

\* processing aiAnalysis throws a TypeError: aiAnalysis.vulnerabilities of
\* null (line 406), or vuln.severity.toLowerCase() of a finding that has no
\* severity (line 418)
Throws(aiAnalysis) ==
  \/ aiAnalysis.type = "null"
  \/ \E k \in 1..Len(aiAnalysis.vulnerabilities) :
       aiAnalysis.vulnerabilities[k].severity = undefined

TypeErrorMessage(aiAnalysis) ==
  IF aiAnalysis.type = "null"
    THEN "Cannot read properties of null (reading 'vulnerabilities')"
    ELSE "Cannot read properties of undefined (reading 'toLowerCase')"

\* the positions of the batch from..to whose processing throws; forEach
\* stops at the first
Throwing(batchResults, from, to) ==
  {k \in from..to : Throws(batchResults[k])}

\* batch.forEach((file, index) => ...) over the positions from..to of files;
\* batchResults[k] is what the call for files[k] resolved with
RECURSIVE ProcessBatch(_, _, _, _, _)
ProcessBatch(results, files, batchResults, from, to) ==
  IF from > to THEN results
  ELSE LET aiAnalysis == batchResults[from] IN
       ProcessBatch(
         [files |-> Append(results.files, fileResult(files[from], aiAnalysis)),
          summary |-> CountAll(results.summary, aiAnalysis.vulnerabilities)],
         files, batchResults, from + 1, to)

(***************************************************************************)
(* database.js: the analysis collection is a sequence of documents in      *)
(* insertion order.                                                        *)
(***************************************************************************)
Matching(coll, id) == {p \in 1..Len(coll) : coll[p].id = id}

First(S) == CHOOSE p \in S : \A q \in S : p <= q

\* findOne({ id: id }): the document, or Absent (null)
getAnalysisById(coll, id) ==
  IF Matching(coll, id) = {} THEN Absent
  ELSE Some(coll[First(Matching(coll, id))])

\* new Date(): the service's clock, counted in the documents the collection
\* has been given; it stands at 2 before the first insert, so that a handler
\* can have read it earlier, and an update is stamped later than the insert
\* of the document it changes
now(coll) == 2 + Len(coll)

\* the ObjectId the store gives the k-th document inserted: never the text
\* of a uuid
ObjectId(k) == 0 - k

\* insertOne({ ...analysis, createdAt, updatedAt, version }): the store adds
\* _id
insertOne(coll, analysis) ==
  Append(coll, [analysis EXCEPT !._id = ObjectId(Len(coll) + 1),
                                !.createdAt = now(coll),
                                !.updatedAt = now(coll)])

\* replaceOne({ id: id }, { results, status, updatedAt }): the document
\* replaced instead of updated
updateAnalysisResultsReplacing(coll, id, results, status) ==
  IF Matching(coll, id) = {} THEN coll
  ELSE [coll EXCEPT ![First(Matching(coll, id))] =
          [@ EXCEPT !.results = Some(results), !.status = status,
                    !.updatedAt = now(coll),
                    !.id = 0, !.userEmail = "", !.date = 0, !.files = <<>>]]

\* updateOne({ id: id }, { $set: { results, status, updatedAt } })
updateAnalysisResults(coll, id, results, status) ==
  IF Matching(coll, id) = {} THEN coll
  ELSE [coll EXCEPT ![First(Matching(coll, id))] =
          [@ EXCEPT !.results = Some(results), !.status = status,
                    !.updatedAt = now(coll)]]

\* updateMany({}, ...): the filter on id forgotten
updateAnalysisStatusAnyId(coll, id, status, error) ==
  [p \in 1..Len(coll) |->
     [coll[p] EXCEPT !.status = status,
                     !.updatedAt = now(coll),
                     !.error = IF error # "" THEN Some(error) ELSE @]]

\* updateOne({ id: id }, { $set: { status, updatedAt [, error] } }):
\* error is set only when the argument is truthy
updateAnalysisStatus(coll, id, status, error) ==
  IF Matching(coll, id) = {} THEN coll
  ELSE [coll EXCEPT ![First(Matching(coll, id))] =
          [@ EXCEPT !.status = status,
                    !.updatedAt = now(coll),
                    !.error = IF error # "" THEN Some(error) ELSE @]]

(***************************************************************************)
(* State.                                                                  *)
(*   analysisCollection  the documents of the analysis collection          *)
(*   task[j]             the POST /analyze request that inserted the j-th  *)
(*                       document, and the background chain it started     *)
(*   lastGet             the last answer of GET /analysis/:id              *)
(***************************************************************************)
\* uuid.v4(): the k-th identifier drawn is fresh
uuid(k) == k

NoCall == [st |-> "none", content |-> Absent, msg |-> Absent]

InFlight == [st |-> "inflight", content |-> Absent, msg |-> Absent]

Resolved(c) == [st |-> "resolved", content |-> Some(c), msg |-> Absent]

Rejected(m) == [st |-> "rejected", content |-> Absent, msg |-> Some(m)]

\* settled after Promise.all had already rejected: the value is dropped
Ignored == [st |-> "ignored", content |-> Absent, msg |-> Absent]

\* files.map(...) over all the remaining files instead of the batch
DispatchAll(calls, n, i) ==
  [k \in 1..n |-> IF k > i THEN InFlight ELSE calls[k]]

\* the promises of batch i of n files are created
Dispatch(calls, n, i) ==
  [k \in 1..n |-> IF k \in BatchPositions(n, i) THEN InFlight ELSE calls[k]]

\* Promise.all(batchPromises) has resolved
AllResolved(calls, n, i) ==
  \A k \in BatchPositions(n, i) : calls[k].st = "resolved"

BatchResults(calls, n, i) ==
  [k \in BatchPositions(n, i) |-> analyzeCodeWithAI(calls[k].content[1])]

NoGet == [kind |-> "none", id |-> 0, requester |-> "", body |-> Absent]

\* the document POST /analyze builds (lines 806-812): date is the clock the
\* handler read.  results and error are not set yet, and _id, createdAt and
\* updatedAt are the store's to give (0 until then)
NewAnalysis(id, u, date, files) ==
  [id |-> id, userEmail |-> u, status |-> "pending", date |-> date,
   files |-> files, results |-> Absent, error |-> Absent,
   _id |-> 0, createdAt |-> 0, updatedAt |-> 0]

\* the request's closure: analysis.id, files, and where the handler and the
\* background chain stand.  outcome is the state of the promise analyzeCode
\* returned, error the message of the Error the catch handler received,
\* rounds the number of batches started, response the body sent
NewTask(id, files) ==
  [id |-> id, files |-> files, pc |-> "inserted", i |-> 0,
   calls |-> [k \in 1..Len(files) |-> NoCall], results |-> EmptyResults,
   outcome |-> "running", error |-> Absent, rounds |-> 0,
   response |-> Absent]

\* the paths of n scanned files, in scan order
Scan(n) == [k \in 1..n |-> k]

\* no request of POST /analyze is on its way
NoRequests == request = <<>>

\* no client has connected to the WebSocket server
NoSockets ==
  /\ globalWebSocket = TRUE
  /\ socket = <<>>
  /\ lastMessage = <<>>

\* let analyses = [] (index.js:81), and no read answered yet
NoReads ==
  /\ analyses = <<>>
  /\ lastHistory = Absent
  /\ lastStats = Absent
  /\ lastReport = NoGet

\* the browsers that talk to the service
MaxBrowsers == 2

Browsers == 1..MaxBrowsers

\* a browser without the securecode_token cookie and with no request under
\* way; cookie and presented are tokens, 0 for none
NewSession ==
  [cookie |-> 0, pc |-> "idle", user |-> Absent,
   presented |-> 0, loggedOut |-> {}]

NoAuth == [token |-> 0, kind |-> "none", email |-> ""]

\* no user has registered
NoAccounts ==
  /\ userCollection = <<>>
  /\ session = [b \in Browsers |-> NewSession]
  /\ issued = 0
  /\ lastAuth = NoAuth

\* new WebSocketClient(url) (websocket.js:5-14).  sockets holds the
\* readyState of every WebSocket the client created, socket the position of
\* this.socket in it (0 for null), timers the setTimeout calls of
\* attemptReconnect, errors the messages handed to the error handlers
NewClient ==
  [socket |-> 0, sockets |-> <<>>, reconnectAttempts |-> 0,
   timers |-> <<>>, errors |-> <<>>, connects |-> 0, disconnects |-> 0]

NoClient == wsClient = NewClient

Init ==
  /\ analysisCollection = <<>>
  /\ task = <<>>
  /\ lastGet = NoGet
  /\ NoRequests
  /\ NoSockets
  /\ NoReads
  /\ NoAccounts
  /\ NoClient

(***************************************************************************)
(* POST /analyze by user u, whose archive extracts and scans to n >= 1     *)
(* code files: the handler up to DB.addAnalysis; the document is in the    *)
(* collection and the handler waits for the acknowledgement.               *)
(***************************************************************************)
addAnalysis(u, date, files) ==
  LET id == uuid(Len(analysisCollection) + 1) IN
    /\ analysisCollection' =
         insertOne(analysisCollection, NewAnalysis(id, u, date, files))
    /\ task' = Append(task, NewTask(id, files))

\* date is the clock the handler read when it built the document, before
\* the insert
SubmitInsert(u, n, date) ==
  /\ Len(analysisCollection) < MaxJobs
  /\ date \in 1..now(analysisCollection)
  /\ addAnalysis(u, date, Scan(n))
  /\ UNCHANGED <<lastGet, intakeVars, relayVars,
                 readVars, authVars, clientVars>>

\* await analyzeCode(files) before answering: the calls are created and the
\* handler stays suspended
SubmitAwaitsAnalysis(j) ==
  /\ task[j].pc = "inserted"
  /\ task' = [task EXCEPT ![j] =
       [@ EXCEPT !.pc = "analyzing",
                 !.calls = Dispatch(@, Len(task[j].files), 0),
                 !.rounds = 1]]
  /\ UNCHANGED <<analysisCollection, lastGet, intakeVars, relayVars,
                 readVars, authVars, clientVars>>

(***************************************************************************)
(* The handler resumes after DB.addAnalysis: analyzeCode(files) runs up to *)
(* its first await (the calls of the first batch are created), the then    *)
(* and catch handlers are attached, and the response {id, status} is sent. *)
(***************************************************************************)
StartAndRespond(j) ==
  task' = [task EXCEPT ![j] =
    [@ EXCEPT !.pc = "analyzing",
              !.calls = Dispatch(@, Len(task[j].files), 0),
              !.rounds = 1,
              !.response = Some([id |-> task[j].id, status |-> "pending"])]]

SubmitRespond(j) ==
  /\ task[j].pc = "inserted"
  /\ StartAndRespond(j)
  /\ UNCHANGED <<analysisCollection, lastGet, intakeVars, relayVars,
                 readVars, authVars, clientVars>>

(***************************************************************************)
(* One inference call of the running batch resolves with completion text   *)
(* c.  When it is the last of its batch, Promise.all resolves and          *)
(* analyzeCode goes on in the same turn: it processes the batch; if that   *)
(* throws, analyzeCode rethrows and the catch handler calls                *)
(* DB.updateAnalysisStatus; otherwise it either creates the calls of the   *)
(* next batch or returns, and the then handler calls                       *)
(* DB.updateAnalysisResults.                                               *)
(***************************************************************************)
CallResolves(j, k, c) ==
  /\ task[j].pc = "analyzing"
  /\ task[j].calls[k].st = "inflight"
  /\ LET t == task[j]
         n == Len(t.files)
         calls == [t.calls EXCEPT ![k] = Resolved(c)]
         to == Min(t.i + batchSize, n)
         batchResults == BatchResults(calls, n, t.i)
         results == ProcessBatch(t.results, t.files, batchResults,
                                 t.i + 1, to)
         throwing == Throwing(batchResults, t.i + 1, to)
     IN task' = [task EXCEPT ![j] =
          IF ~AllResolved(calls, n, t.i)
            THEN [t EXCEPT !.calls = calls]
            ELSE IF throwing # {}
              THEN [t EXCEPT !.calls = calls,
                             !.outcome = "rejected",
                             !.error = Some(TypeErrorMessage(
                                              batchResults[First(throwing)])),
                             !.pc = "writeFailed"]
            ELSE IF t.i + batchSize < n
              THEN [t EXCEPT !.calls = Dispatch(calls, n, t.i + batchSize),
                             !.results = results,
                             !.i = t.i + batchSize,
                             !.rounds = @ + 1]
              ELSE [t EXCEPT !.calls = calls,
                             !.results = results,
                             !.outcome = "resolved",
                             !.pc = "writeCompleted"]]
  /\ UNCHANGED <<analysisCollection, lastGet, intakeVars, relayVars,
                 readVars, authVars, clientVars>>

(***************************************************************************)
(* One inference call of the running batch rejects with an Error of        *)
(* message m: Promise.all rejects, analyzeCode rethrows, the then handler  *)
(* is skipped and the catch handler calls DB.updateAnalysisStatus.         *)
(***************************************************************************)
CallRejects(j, k, m) ==
  /\ task[j].pc = "analyzing"
  /\ task[j].calls[k].st = "inflight"
  /\ task' = [task EXCEPT ![j] =
       [@ EXCEPT !.calls[k] = Rejected(m),
                 !.outcome = "rejected",
                 !.error = Some(m),
                 !.pc = "writeFailed"]]
  /\ UNCHANGED <<analysisCollection, lastGet, intakeVars, relayVars,
                 readVars, authVars, clientVars>>

(***************************************************************************)
(* A call settles after Promise.all has rejected: nothing reads it.        *)
(***************************************************************************)
CallSettlesLate(j, k) ==
  /\ task[j].pc # "analyzing"
  /\ task[j].calls[k].st = "inflight"
  /\ task' = [task EXCEPT ![j].calls[k] = Ignored]
  /\ UNCHANGED <<analysisCollection, lastGet, intakeVars, relayVars,
                 readVars, authVars, clientVars>>

(***************************************************************************)
(* The then handler: await DB.updateAnalysisResults(id, result,            *)
(* 'completed') succeeds, or rejects; a rejection goes to the catch        *)
(* handler, which calls DB.updateAnalysisStatus with the store's message.  *)
(* An update of one document is atomic: one that rejects changed nothing.  *)
(***************************************************************************)
CompletedWriteOk(j) ==
  /\ task[j].pc = "writeCompleted"
  /\ analysisCollection' = updateAnalysisResults(
       analysisCollection, task[j].id, task[j].results, "completed")
  /\ task' = [task EXCEPT ![j].pc = "done"]
  /\ UNCHANGED <<lastGet, intakeVars, relayVars,
                 readVars, authVars, clientVars>>

CompletedWriteFails(j) ==
  /\ task[j].pc = "writeCompleted"
  /\ task' = [task EXCEPT ![j].pc = "writeFailed",
                          ![j].error = Some(StoreError)]
  /\ UNCHANGED <<analysisCollection, lastGet, intakeVars, relayVars,
                 readVars, authVars, clientVars>>

(***************************************************************************)
(* The catch handler: await DB.updateAnalysisStatus(id, 'failed',          *)
(* error.message) succeeds, or rejects; nothing handles that rejection.    *)
(***************************************************************************)
FailedWriteOk(j) ==
  /\ task[j].pc = "writeFailed"
  /\ analysisCollection' = updateAnalysisStatus(
       analysisCollection, task[j].id, "failed", task[j].error[1])
  /\ task' = [task EXCEPT ![j].pc = "done"]
  /\ UNCHANGED <<lastGet, intakeVars, relayVars,
                 readVars, authVars, clientVars>>

FailedWriteFails(j) ==
  /\ task[j].pc = "writeFailed"
  /\ task' = [task EXCEPT ![j].pc = "unhandled"]
  /\ UNCHANGED <<analysisCollection, lastGet, intakeVars, relayVars,
                 readVars, authVars, clientVars>>

\* the ownership test left out
GetAnalysisAnyone(coll, id, u) ==
  LET analysis == getAnalysisById(coll, id) IN
  IF analysis = Absent
    THEN [kind |-> "NotFound", id |-> id, requester |-> u, body |-> Absent]
    ELSE [kind |-> "Ok", id |-> id, requester |-> u, body |-> analysis]

(***************************************************************************)
(* GET /analysis/:id by the authenticated user u.                          *)
(***************************************************************************)
GetAnalysis(coll, id, u) ==
  LET analysis == getAnalysisById(coll, id) IN
  IF analysis = Absent
    THEN [kind |-> "NotFound", id |-> id, requester |-> u, body |-> Absent]
    ELSE IF analysis[1].userEmail # u /\ role(u) # "admin"
      THEN [kind |-> "Forbidden", id |-> id, requester |-> u, body |-> Absent]
      ELSE [kind |-> "Ok", id |-> id, requester |-> u, body |-> analysis]

GetJob(id, u) ==
  /\ lastGet' = GetAnalysis(analysisCollection, id, u)
  /\ UNCHANGED <<analysisCollection, task, intakeVars, relayVars,
                 readVars, authVars, clientVars>>

(***************************************************************************)
(* test-upload.js: the submitter polls GET /analysis/:id with the id the   *)
(* response gave it.                                                       *)
(***************************************************************************)
Poll(j) ==
  /\ task[j].response # Absent
  /\ GetJob(task[j].id, analysisCollection[j].userEmail)

Jobs == 1..Len(task)

Files(j) == 1..Len(task[j].files)

\* the identifiers a reader presents
ReadIds == {uuid(k) : k \in 1..MaxJobs}

(***************************************************************************)
(* POST /analyze from the request to DB.addAnalysis (lines 731-824).       *)
(*                                                                         *)
(* An archive is the sequence of its entries, in the order extractAllTo    *)
(* writes them:                                                            *)
(*   "code"      a file with a code extension (a.js)                       *)
(*   "text"      any other file (README.md)                                *)
(*   "bad"       an entry adm-zip cannot read: extraction throws there; a  *)
(*               file that is no zip archive at all is <<"bad">>           *)
(*   "escaping"  an entry named to resolve outside the target directory    *)
(*               (../../x.sh)                                              *)
(***************************************************************************)
Archives ==
  { <<"code">>, <<"code", "text", "code">>, <<"text">>, <<"bad">>,
    <<"code", "bad">>, <<"escaping", "code">> }

Submissions ==
  { [source |-> "file", repoUrl |-> "", archive |-> a] : a \in Archives }
  \cup
  { [source |-> "repoUrl", repoUrl |-> "https://github.com/owner/repo.git",
     archive |-> <<"code">>],
    [source |-> "repoUrl", repoUrl |-> "https://gitlab.com/owner/repo",
     archive |-> <<"code">>],
    [source |-> "none", repoUrl |-> "", archive |-> <<>>] }

\* githubUrlRegex.test(url), on the URLs submitted here
validateGitHubUrl(url) ==
  url \in {"https://github.com/owner/repo", "https://github.com/owner/repo.git"}

APIError(message, status, code) ==
  [status |-> status, code |-> code, message |-> message]

\* what the error middleware answers for an Error that is no APIError
InternalError(message) ==
  [status |-> 500, code |-> "INTERNAL_SERVER_ERROR", message |-> message]

Started == [status |-> 200, code |-> "", message |-> "Analysis started successfully"]

\* extract(): new AdmZip(filePath).extractAllTo(dir, true).  The entries
\* before the first one that cannot be read are written.  utils.js does not
\* look at entry names: what happens to an escaping entry is up to the
\* adm-zip installed, which either strips the ".." segments and writes the
\* file inside dir (sanitizes) or writes it where the name resolves.
extract(archive, sanitizes) ==
  LET bad == {k \in 1..Len(archive) : archive[k] = "bad"}
      upto == IF bad = {} THEN Len(archive) ELSE First(bad) - 1
      entries == SubSeq(archive, 1, upto)
      inside == SelectSeq(entries, LAMBDA e : sanitizes \/ e # "escaping")
  IN [ok |-> bad = {},
      written |-> [k \in 1..Len(inside) |->
                     IF inside[k] = "escaping" THEN "code" ELSE inside[k]],
      outside |-> ~sanitizes /\ \E k \in 1..upto : entries[k] = "escaping"]

\* isCodeFile(entry.name)
isCodeFile(entry) == entry = "code"

\* the code files of a directory, as positions of its entries
CodeFiles(dir) == {k \in 1..Len(dir) : isCodeFile(dir[k])}

\* scanDirectory when every read succeeds: one file per code file
scanDirectory(dir) == Scan(Cardinality(CodeFiles(dir)))

\* the request's closure:
\*   tempDir     "none" before mkdtemp, then "exists", "removed" after rm
\*   dir         the entries extracted into tempDir
\*   outside     a file was written outside tempDir
\*   unreadable  the position in dir of the file whose read failed, or 0
\*   date        the clock read when the document was built, 0 before
\*   job         the position of the document inserted for it, or 0
NewRequest(u, sub) ==
  [user |-> u, source |-> sub.source, repoUrl |-> sub.repoUrl,
   archive |-> sub.archive, pc |-> "received", tempDir |-> "none",
   dir |-> <<>>, outside |-> FALSE, extractFailed |-> FALSE,
   scanned |-> FALSE, files |-> <<>>, unreadable |-> 0, date |-> 0,
   response |-> Absent, job |-> 0]

\* next(error): the error middleware answers
Fail(r, error) ==
  [r EXCEPT !.pc = "answered", !.response = Some(error)]

(***************************************************************************)
(* The request arrives: a repoUrl is validated and the download starts; a  *)
(* file starts fs.mkdtemp; neither is an APIError.                         *)
(***************************************************************************)
Receive(u, sub) ==
  /\ Len(request) < MaxRequests
  /\ request' = Append(request,
       LET r == NewRequest(u, sub) IN
       IF sub.repoUrl # ""
         THEN IF ~validateGitHubUrl(sub.repoUrl)
                THEN Fail(r, APIError("Invalid GitHub URL format", 400,
                                      "INVALID_GITHUB_URL"))
                ELSE [r EXCEPT !.pc = "download"]
         ELSE IF sub.source = "file"
                THEN [r EXCEPT !.pc = "mkdtemp"]
                ELSE Fail(r, APIError("No file or repository URL provided",
                                      400, "NO_INPUT")))
  /\ UNCHANGED <<analysisCollection, task, lastGet, relayVars,
                 readVars, authVars, clientVars>>

\* downloadGitHubRepo resolves: fs.mkdtemp starts
DownloadOk(x) ==
  /\ request[x].pc = "download"
  /\ request' = [request EXCEPT ![x].pc = "mkdtemp"]
  /\ UNCHANGED <<analysisCollection, task, lastGet, relayVars,
                 readVars, authVars, clientVars>>

DownloadFails(x) ==
  /\ request[x].pc = "download"
  /\ request' = [request EXCEPT ![x] =
       Fail(@, InternalError("Failed to download GitHub repository"))]
  /\ UNCHANGED <<analysisCollection, task, lastGet, relayVars,
                 readVars, authVars, clientVars>>

\* fs.mkdtemp resolves: fs.writeFile of the archive starts
MkdtempOk(x) ==
  /\ request[x].pc = "mkdtemp"
  /\ request' = [request EXCEPT ![x].pc = "writeFile",
                                ![x].tempDir = "exists"]
  /\ UNCHANGED <<analysisCollection, task, lastGet, relayVars,
                 readVars, authVars, clientVars>>

MkdtempFails(x) ==
  /\ request[x].pc = "mkdtemp"
  /\ request' = [request EXCEPT ![x] = Fail(@, InternalError("ENOSPC"))]
  /\ UNCHANGED <<analysisCollection, task, lastGet, relayVars,
                 readVars, authVars, clientVars>>

\* the extraction error swallowed: the handler goes on to scan what was
\* extracted
WriteFileOkIgnoringError(x, sanitizes) ==
  /\ request[x].pc = "writeFile"
  /\ LET z == extract(request[x].archive, sanitizes) IN
     request' = [request EXCEPT ![x] =
       [@ EXCEPT !.dir = z.written, !.outside = z.outside,
                 !.extractFailed = ~z.ok, !.pc = "scan"]]
  /\ UNCHANGED <<analysisCollection, task, lastGet, relayVars,
                 readVars, authVars, clientVars>>

(***************************************************************************)
(* fs.writeFile resolves: extract() runs to its end in the same turn       *)
(* (adm-zip is synchronous).  If it throws the request is answered with    *)
(* the error; otherwise scanDirectory starts.                              *)
(***************************************************************************)
WriteFileOk(x, sanitizes) ==
  /\ request[x].pc = "writeFile"
  /\ LET z == extract(request[x].archive, sanitizes) IN
     request' = [request EXCEPT ![x] =
       IF z.ok
         THEN [@ EXCEPT !.dir = z.written, !.outside = z.outside,
                        !.pc = "scan"]
         ELSE Fail([@ EXCEPT !.dir = z.written, !.outside = z.outside,
                             !.extractFailed = TRUE],
                   InternalError("Invalid or unsupported zip format"))]
  /\ UNCHANGED <<analysisCollection, task, lastGet, relayVars,
                 readVars, authVars, clientVars>>

WriteFileFails(x) ==
  /\ request[x].pc = "writeFile"
  /\ request' = [request EXCEPT ![x] = Fail(@, InternalError("ENOSPC"))]
  /\ UNCHANGED <<analysisCollection, task, lastGet, relayVars,
                 readVars, authVars, clientVars>>

\* scanDirectory resolves with the code files: fs.rm starts
ScanOk(x) ==
  /\ request[x].pc = "scan"
  /\ request' = [request EXCEPT ![x].scanned = TRUE,
                                ![x].files = scanDirectory(request[x].dir),
                                ![x].pc = "rm"]
  /\ UNCHANGED <<analysisCollection, task, lastGet, relayVars,
                 readVars, authVars, clientVars>>

\* fs.readFile of the code file at position k of the directory rejects:
\* scanDirectory rejects and the request is answered with the error
ScanReadFails(x, k) ==
  /\ request[x].pc = "scan"
  /\ k \in CodeFiles(request[x].dir)
  /\ request' = [request EXCEPT ![x] =
       Fail([@ EXCEPT !.unreadable = k], InternalError("EACCES"))]
  /\ UNCHANGED <<analysisCollection, task, lastGet, relayVars,
                 readVars, authVars, clientVars>>

\* fs.readdir rejects
ScanFails(x) ==
  /\ request[x].pc = "scan"
  /\ request' = [request EXCEPT ![x] = Fail(@, InternalError("EIO"))]
  /\ UNCHANGED <<analysisCollection, task, lastGet, relayVars,
                 readVars, authVars, clientVars>>

\* the test of files.length left out
RmOkAnyFiles(x) ==
  /\ request[x].pc = "rm"
  /\ request' = [request EXCEPT ![x] =
       [@ EXCEPT !.tempDir = "removed", !.date = now(analysisCollection),
                 !.pc = "addAnalysis"]]
  /\ UNCHANGED <<analysisCollection, task, lastGet, relayVars,
                 readVars, authVars, clientVars>>

(***************************************************************************)
(* fs.rm resolves: without code files the request is answered with the     *)
(* NO_CODE_FILES error, otherwise DB.addAnalysis starts.                   *)
(***************************************************************************)
RmOk(x) ==
  /\ request[x].pc = "rm"
  /\ request' = [request EXCEPT ![x] =
       IF Len(@.files) = 0
         THEN Fail([@ EXCEPT !.tempDir = "removed"],
                   APIError("No code files found", 400, "NO_CODE_FILES"))
         ELSE [@ EXCEPT !.tempDir = "removed",
                        !.date = now(analysisCollection),
                        !.pc = "addAnalysis"]]
  /\ UNCHANGED <<analysisCollection, task, lastGet, relayVars,
                 readVars, authVars, clientVars>>

RmFails(x) ==
  /\ request[x].pc = "rm"
  /\ request' = [request EXCEPT ![x] = Fail(@, InternalError("EBUSY"))]
  /\ UNCHANGED <<analysisCollection, task, lastGet, relayVars,
                 readVars, authVars, clientVars>>

\* the store inserts the document (SubmitInsert, for this request)
AddAnalysisOk(x) ==
  /\ request[x].pc = "addAnalysis"
  /\ addAnalysis(request[x].user, request[x].date, request[x].files)
  /\ request' = [request EXCEPT ![x].pc = "inserted",
                                ![x].job = Len(analysisCollection) + 1]
  /\ UNCHANGED <<lastGet, relayVars,
                 readVars, authVars, clientVars>>

\* the rejection of the insert swallowed: the caller is told the analysis
\* started
AddAnalysisFailsSilently(x) ==
  /\ request[x].pc = "addAnalysis"
  /\ request' = [request EXCEPT ![x] = Fail(@, Started)]
  /\ UNCHANGED <<analysisCollection, task, lastGet, relayVars,
                 readVars, authVars, clientVars>>

\* DB.addAnalysis rejects: nothing was inserted, line 828 is not reached and
\* the catch of line 845 answers with the error
AddAnalysisFails(x) ==
  /\ request[x].pc = "addAnalysis"
  /\ request' = [request EXCEPT ![x] = Fail(@, InternalError(StoreError))]
  /\ UNCHANGED <<analysisCollection, task, lastGet, relayVars,
                 readVars, authVars, clientVars>>

\* SubmitRespond for the job of request x
Respond(x) ==
  /\ request[x].pc = "inserted"
  /\ task[request[x].job].pc = "inserted"
  /\ StartAndRespond(request[x].job)
  /\ request' = [request EXCEPT ![x].pc = "answered",
                                ![x].response = Some(Started)]
  /\ UNCHANGED <<analysisCollection, lastGet, relayVars,
                 readVars, authVars, clientVars>>

Requests == 1..Len(request)

(***************************************************************************)
(* Spec: the service under several submissions, each polled by its         *)
(* submitter.  The uploads of Spec hold one code file each, so that no     *)
(* call has a sibling and none settles late; SpecRun below follows one     *)
(* submission of up to MaxFiles files.                                     *)
(***************************************************************************)
UploadSizes == {1}

Next ==
  \/ \E u \in Uploaders, n \in UploadSizes :
       SubmitInsert(u, n, now(analysisCollection))
  \/ \E j \in Jobs : SubmitRespond(j)
  \/ \E j \in Jobs, c \in Contents : \E k \in Files(j) : CallResolves(j, k, c)
  \/ \E j \in Jobs, m \in Messages : \E k \in Files(j) : CallRejects(j, k, m)
  \/ \E j \in Jobs : CompletedWriteOk(j)
  \/ \E j \in Jobs : CompletedWriteFails(j)
  \/ \E j \in Jobs : FailedWriteOk(j)
  \/ \E j \in Jobs : FailedWriteFails(j)
  \/ \E j \in Jobs : Poll(j)

Spec == Init /\ [][Next]_vars

(***************************************************************************)
(* SpecRun: one submission of 1..MaxFiles code files, from the moment its  *)
(* document is inserted, and readers of any identity.                      *)
(***************************************************************************)
InitRun ==
  \E u \in Submitters, n \in 1..MaxFiles :
    /\ analysisCollection = insertOne(<<>>, NewAnalysis(uuid(1), u, 1, Scan(n)))
    /\ task = <<NewTask(uuid(1), Scan(n))>>
    /\ lastGet = NoGet
    /\ NoRequests
    /\ NoSockets
    /\ NoReads
    /\ NoAccounts
    /\ NoClient

NextRun ==
  \/ \E j \in Jobs : SubmitRespond(j)
  \/ \E j \in Jobs, c \in Contents : \E k \in Files(j) : CallResolves(j, k, c)
  \/ \E j \in Jobs, m \in Messages : \E k \in Files(j) : CallRejects(j, k, m)
  \/ \E j \in Jobs : \E k \in Files(j) : CallSettlesLate(j, k)
  \/ \E j \in Jobs : CompletedWriteOk(j)
  \/ \E j \in Jobs : CompletedWriteFails(j)
  \/ \E j \in Jobs : FailedWriteOk(j)
  \/ \E j \in Jobs : FailedWriteFails(j)
  \/ \E id \in ReadIds, u \in Users : GetJob(id, u)

SpecRun == InitRun /\ [][NextRun]_vars

(***************************************************************************)
(* SpecIntake: the requests of POST /analyze from their arrival to their   *)
(* answer; the background chains they start are followed by Spec and       *)
(* SpecRun.                                                                *)
(***************************************************************************)
NextIntake ==
  \/ \E u \in Uploaders, sub \in Submissions : Receive(u, sub)
  \/ \E x \in Requests : DownloadOk(x)
  \/ \E x \in Requests : DownloadFails(x)
  \/ \E x \in Requests : MkdtempOk(x)
  \/ \E x \in Requests : MkdtempFails(x)
  \/ \E x \in Requests, sanitizes \in BOOLEAN : WriteFileOk(x, sanitizes)
  \/ \E x \in Requests : WriteFileFails(x)
  \/ \E x \in Requests : ScanOk(x)
  \/ \E x \in Requests : \E k \in 1..Len(request[x].dir) : ScanReadFails(x, k)
  \/ \E x \in Requests : ScanFails(x)
  \/ \E x \in Requests : RmOk(x)
  \/ \E x \in Requests : RmFails(x)
  \/ \E x \in Requests : AddAnalysisOk(x)
  \/ \E x \in Requests : AddAnalysisFails(x)
  \/ \E x \in Requests : Respond(x)

SpecIntake == Init /\ [][NextIntake]_vars

(***************************************************************************)
(* peerProxy.js.  socket is socketServer.clients, in insertion order, with *)
(* the sockets the server has removed kept as CLOSED.                      *)
(*   readyState  OPEN; CLOSING after the client's close frame or after     *)
(*               terminate(), until the 'close' event; then CLOSED         *)
(*   isAlive     the flag the connection and pong handlers and the         *)
(*               interval set                                              *)
(*   ticks       the interval ticks that found the socket in clients       *)
(*   pinged      the last of these ticks sent it a ping frame              *)
(*   pong        a pong frame of it arrived since that tick                *)
(*   answered    a pong frame of it arrived at all                         *)
(* globalWebSocket: the handler reads WebSocket.OPEN, and the file binds   *)
(* only WebSocketServer (line 1): the name resolves to the runtime's       *)
(* global WebSocket class (OPEN = 1, as in ws) where there is one, and     *)
(* reading it throws a ReferenceError where there is none.                 *)
(* lastMessage: what the message handler did for the last inbound message: *)
(* the readyState of every socket then, and the number of relayed frames   *)
(* and of error frames it sent to each.                                    *)
(***************************************************************************)
Payloads ==
  { [json |-> TRUE, text |-> "{\"type\":\"progress\"}"],
    [json |-> FALSE, text |-> "progress"] }

\* socket.isAlive = false at connection
NewSocketNotAlive ==
  [readyState |-> "OPEN", isAlive |-> FALSE, ticks |-> 0,
   pinged |-> FALSE, pong |-> FALSE, answered |-> FALSE]

NewSocket ==
  [readyState |-> "OPEN", isAlive |-> TRUE, ticks |-> 0,
   pinged |-> FALSE, pong |-> FALSE, answered |-> FALSE]

Sockets == 1..Len(socket)

\* socketServer.clients
Clients == {k \in Sockets : socket[k].readyState # "CLOSED"}

\* socketServer.on('connection')
Connect ==
  /\ Len(socket) < MaxClients
  /\ socket' = Append(socket, NewSocket)
  /\ UNCHANGED <<analysisCollection, task, lastGet, intakeVars,
                 globalWebSocket, lastMessage,
                 readVars, authVars, clientVars>>

\* clients.forEach(client => { if (client !== socket &&
\* client.readyState === WebSocket.OPEN) client.send(...) }), for sender c:
\* the number of frames sent to each socket
Broadcast(c) ==
  [k \in Sockets |->
     IF k # c /\ socket[k].readyState = "OPEN" THEN 1 ELSE 0]

None == [k \in Sockets |-> 0]

\* forEach reaches a client other than the sender and evaluates WebSocket
ReadsWebSocket(c) == Clients \ {c} # {}

\* socket.send(JSON.stringify({ type: 'error', ... })) in the catch block
ErrorTo(c) == [k \in Sockets |-> IF k = c THEN 1 ELSE 0]

\* socket.on('message') of socket c with payload data
Message(c, data) ==
  /\ socket[c].readyState = "OPEN"
  /\ lastMessage' = Some(
       LET states == [k \in Sockets |-> socket[k].readyState] IN
       IF ~data.json
         THEN [from |-> c, data |-> data, states |-> states,
               relayed |-> None, errors |-> ErrorTo(c)]
         ELSE IF ReadsWebSocket(c) /\ ~globalWebSocket
           THEN [from |-> c, data |-> data, states |-> states,
                 relayed |-> None, errors |-> ErrorTo(c)]
           ELSE [from |-> c, data |-> data, states |-> states,
                 relayed |-> Broadcast(c), errors |-> None])
  /\ UNCHANGED <<analysisCollection, task, lastGet, intakeVars,
                 globalWebSocket, socket,
                 readVars, authVars, clientVars>>

\* the handler without its assignment
PongIgnored(c) ==
  /\ socket[c].readyState = "OPEN"
  /\ socket' = [socket EXCEPT ![c].pong = TRUE, ![c].answered = TRUE]
  /\ UNCHANGED <<analysisCollection, task, lastGet, intakeVars,
                 globalWebSocket, lastMessage,
                 readVars, authVars, clientVars>>

\* socket.on('pong')
Pong(c) ==
  /\ socket[c].readyState = "OPEN"
  /\ socket' = [socket EXCEPT ![c].isAlive = TRUE,
                              ![c].pong = TRUE, ![c].answered = TRUE]
  /\ UNCHANGED <<analysisCollection, task, lastGet, intakeVars,
                 globalWebSocket, lastMessage,
                 readVars, authVars, clientVars>>

\* the interval callback for one client: terminate() makes the socket
\* CLOSING; ping() sends a frame only on an OPEN socket
CheckAlive(client) ==
  IF client.readyState = "CLOSED" THEN client
  ELSE IF client.isAlive = FALSE
    THEN [client EXCEPT !.readyState = "CLOSING", !.ticks = @ + 1,
                        !.pinged = FALSE, !.pong = FALSE]
    ELSE [client EXCEPT !.isAlive = FALSE, !.ticks = @ + 1,
                        !.pinged = (client.readyState = "OPEN"),
                        !.pong = FALSE]

\* setInterval(..., 10000) fires
Tick ==
  /\ \A k \in Clients : socket[k].ticks < MaxTicks
  /\ socket' = [k \in Sockets |-> CheckAlive(socket[k])]
  /\ UNCHANGED <<analysisCollection, task, lastGet, intakeVars,
                 globalWebSocket, lastMessage,
                 readVars, authVars, clientVars>>

\* the client's close frame arrives
ClientCloses(c) ==
  /\ socket[c].readyState = "OPEN"
  /\ socket' = [socket EXCEPT ![c].readyState = "CLOSING"]
  /\ UNCHANGED <<analysisCollection, task, lastGet, intakeVars,
                 globalWebSocket, lastMessage,
                 readVars, authVars, clientVars>>

\* the connection is gone: the 'close' event, and the server drops the
\* socket from clients
Closed(c) ==
  /\ socket[c].readyState # "CLOSED"
  /\ socket' = [socket EXCEPT ![c].readyState = "CLOSED"]
  /\ UNCHANGED <<analysisCollection, task, lastGet, intakeVars,
                 globalWebSocket, lastMessage,
                 readVars, authVars, clientVars>>

(***************************************************************************)
(* SpecRelay: the message handler of the WebSocket server, on a runtime    *)
(* with or without a global WebSocket.  The handler reads of the other     *)
(* sockets only their readyState; the interval changes it the way a        *)
(* client's close frame does (to CLOSING), and is followed by              *)
(* SpecHeartbeat.                                                          *)
(***************************************************************************)
InitRelay ==
  /\ analysisCollection = <<>>
  /\ task = <<>>
  /\ lastGet = NoGet
  /\ NoRequests
  /\ globalWebSocket \in BOOLEAN
  /\ socket = <<>>
  /\ lastMessage = <<>>
  /\ NoReads
  /\ NoAccounts
  /\ NoClient

NextRelay ==
  \/ Connect
  \/ \E c \in Sockets, data \in Payloads : Message(c, data)
  \/ \E c \in Sockets : ClientCloses(c)
  \/ \E c \in Sockets : Closed(c)

SpecRelay == InitRelay /\ [][NextRelay]_vars

(***************************************************************************)
(* SpecHeartbeat: the interval and the pong handler.                       *)
(***************************************************************************)
NextHeartbeat ==
  \/ Connect
  \/ \E c \in Sockets : Pong(c)
  \/ Tick
  \/ \E c \in Sockets : ClientCloses(c)
  \/ \E c \in Sockets : Closed(c)

SpecHeartbeat == Init /\ [][NextHeartbeat]_vars

(***************************************************************************)
(* FairRun: SpecRun when every started operation finishes: the handler     *)
(* resumes, every inference call settles, every store write is answered.   *)
(***************************************************************************)
Settles(j) ==
  \E k \in Files(j) :
    \/ \E c \in Contents : CallResolves(j, k, c)
    \/ \E m \in Messages : CallRejects(j, k, m)
    \/ CallSettlesLate(j, k)

WriteAnswered(j) ==
  \/ CompletedWriteOk(j)
  \/ CompletedWriteFails(j)
  \/ FailedWriteOk(j)
  \/ FailedWriteFails(j)

FairRun ==
  /\ SpecRun
  /\ WF_vars(\E j \in Jobs : SubmitRespond(j))
  /\ WF_vars(\E j \in Jobs : Settles(j))
  /\ WF_vars(\E j \in Jobs : WriteAnswered(j))

(***************************************************************************)
(* The reads of the collection and of the in-memory array.                 *)
(***************************************************************************)
\* the positions of the documents of one owner: find({ userEmail: email })
OwnedBy(coll, email) == {p \in 1..Len(coll) : coll[p].userEmail = email}

\* sort: { date: -1 }: the orders the store may return a set of documents
\* in; the order of documents of the same date is the store's choice
SortedByDateDescending(coll, S) ==
  {o \in [1..Cardinality(S) -> S] :
     /\ \A i, j \in 1..Cardinality(S) : i # j => o[i] # o[j]
     /\ \A i, j \in 1..Cardinality(S) :
          i < j => coll[o[i]].date >= coll[o[j]].date}

\* projection: { _id, date, files, repoUrl, status, results }; the documents
\* of uploads have no repoUrl
Projection(a) ==
  [_id |-> a._id, date |-> a.date, files |-> a.files,
   status |-> a.status, results |-> a.results]

\* find(query) without the sort option: the documents in insertion order
getAnalysisHistoryUnsorted(coll, email) ==
  LET S == OwnedBy(coll, email)
      o == [i \in 1..Cardinality(S) |->
              CHOOSE p \in S : Cardinality({q \in S : q < p}) = i - 1]
  IN {[i \in 1..Cardinality(S) |-> Projection(coll[o[i]])]}

\* the arrays cursor.toArray() may resolve with
getAnalysisHistory(coll, email) ==
  {[i \in 1..Cardinality(OwnedBy(coll, email)) |-> Projection(coll[o[i]])] :
     o \in SortedByDateDescending(coll, OwnedBy(coll, email))}

\* GET /analysis/history by the authenticated user u
History(u) ==
  /\ \E history \in getAnalysisHistory(analysisCollection, u) :
       lastHistory' = Some([requester |-> u, entries |-> history])
  /\ UNCHANGED <<analysisCollection, task, lastGet, intakeVars, relayVars,
                 analyses, lastStats, lastReport, authVars, clientVars>>

\* history.jsx, View Details on row k of the list the page holds: the entry
\* has an _id, so the page fetches /api/analysis/<_id>
OpenDetails(k) ==
  /\ lastHistory # Absent
  /\ k \in 1..Len(lastHistory[1].entries)
  /\ GetJob(lastHistory[1].entries[k]._id, lastHistory[1].requester)

\* analyses.filter(a => a.userId === req.user.email &&
\*                      a.status === 'completed')
userAnalyses(u) ==
  SelectSeq(analyses, LAMBDA a : a.userId = u /\ a.status = "completed")

\* GET /stats by the authenticated user u
Stats(u) ==
  /\ lastStats' = Some([requester |-> u,
                        totalAnalyses |-> Len(userAnalyses(u))])
  /\ UNCHANGED <<analysisCollection, task, lastGet, intakeVars, relayVars,
                 analyses, lastHistory, lastReport, authVars, clientVars>>

\* analyses.find(a => a.id === req.params.id && a.userId === req.user.email)
findAnalysis(id, u) ==
  SelectSeq(analyses, LAMBDA a : a.id = id /\ a.userId = u)

\* GET /analysis/:id/report by the authenticated user u
Report(id, u) ==
  /\ lastReport' =
       LET found == findAnalysis(id, u) IN
       IF found = <<>>
         THEN [kind |-> "NotFound", id |-> id, requester |-> u,
               body |-> Absent]
         ELSE IF found[1].status # "completed"
           THEN [kind |-> "NotCompleted", id |-> id, requester |-> u,
                 body |-> Absent]
           ELSE [kind |-> "Ok", id |-> id, requester |-> u,
                 body |-> Some(found[1])]
  /\ UNCHANGED <<analysisCollection, task, lastGet, intakeVars, relayVars,
                 analyses, lastHistory, lastStats, authVars, clientVars>>

(***************************************************************************)
(* SpecHistory: the jobs of two users, submitted with any clock reading    *)
(* the handlers can have taken, each answered by the inference service     *)
(* with one finding or with a connection error, and the history page of    *)
(* either user.  SpecStats: the same jobs, and the statistics and report   *)
(* reads.                                                                  *)
(***************************************************************************)
Answers == {c \in Contents : c.type = "object" /\ Len(c.vulnerabilities) = 1
                               /\ c.vulnerabilities[1].severity = "High"}

Refusals == {"Connection error."}

\* the readings of the clock the handlers of SpecHistory took: the same
\* instant, or two successive ones, in either order of insertion
ClockReadings == {1, 2}

NextHistory ==
  \/ \E u \in Submitters, n \in UploadSizes :
       \E date \in ClockReadings : SubmitInsert(u, n, date)
  \/ \E j \in Jobs : SubmitRespond(j)
  \/ \E j \in Jobs, c \in Answers : \E k \in Files(j) : CallResolves(j, k, c)
  \/ \E j \in Jobs, m \in Refusals : \E k \in Files(j) : CallRejects(j, k, m)
  \/ \E j \in Jobs : CompletedWriteOk(j)
  \/ \E j \in Jobs : FailedWriteOk(j)
  \/ \E u \in Uploaders : History(u)
  \/ \E k \in 1..MaxJobs : OpenDetails(k)

SpecHistory == Init /\ [][NextHistory]_vars

NextStats ==
  \/ \E u \in Submitters, n \in UploadSizes :
       SubmitInsert(u, n, now(analysisCollection))
  \/ \E j \in Jobs : SubmitRespond(j)
  \/ \E j \in Jobs, c \in Answers : \E k \in Files(j) : CallResolves(j, k, c)
  \/ \E j \in Jobs, m \in Refusals : \E k \in Files(j) : CallRejects(j, k, m)
  \/ \E j \in Jobs : CompletedWriteOk(j)
  \/ \E j \in Jobs : FailedWriteOk(j)
  \/ \E u \in Submitters : Stats(u)
  \/ \E id \in ReadIds, u \in Submitters : Report(id, u)

SpecStats == Init /\ [][NextStats]_vars

(***************************************************************************)
(* Sessions (index.js:43-60, 134-258; database.js:42-61).  A user document *)
(* is a function from the names of the fields it has to their values, so   *)
(* that a document without a token differs from one with a token.  A       *)
(* session is one browser: its securecode_token cookie and, while a login  *)
(* or logout request of it is suspended at a store call, the user object   *)
(* the handler holds.  loggedOut is the set of tokens the browser          *)
(* presented to a logout that found their user and was answered 204.       *)
(***************************************************************************)
\* the tokens uuid.v4() gives out
MaxTokens == 2

\* userCollection.findOne({ email: email })
getUser(coll, email) ==
  LET S == {p \in 1..Len(coll) : coll[p].email = email} IN
  IF S = {} THEN Absent ELSE Some(coll[First(S)])

\* userCollection.findOne({ token: token }): a document without the field
\* does not match
getUserByToken(coll, token) ==
  LET S == {p \in 1..Len(coll) :
              "token" \in DOMAIN coll[p] /\ coll[p].token = token} IN
  IF S = {} THEN Absent ELSE Some(coll[First(S)])

\* findUser(field, value): null at once for a missing value (an email "",
\* a token 0)
findUser(coll, field, value) ==
  IF field = "email"
    THEN IF value = "" THEN Absent ELSE getUser(coll, value)
  ELSE IF field = "token"
    THEN IF value = 0 THEN Absent ELSE getUserByToken(coll, value)
  ELSE Absent

\* updateOne({ email: user.email }, { $set: user }): the fields of user are
\* written over the document's; a field user does not have is left as it is
updateUser(coll, user) ==
  [p \in 1..Len(coll) |->
     IF getUser(coll, user.email) # Absent
        /\ p = First({q \in 1..Len(coll) : coll[q].email = user.email})
       THEN [f \in DOMAIN coll[p] \cup DOMAIN user |->
               IF f \in DOMAIN user THEN user[f] ELSE coll[p][f]]
       ELSE coll[p]]

\* delete user.token
deleteToken(user) == [f \in DOMAIN user \ {"token"} |-> user[f]]

\* createUser: the user object of a valid email and password
createUser(email, token) ==
  [email |-> email, password |-> "hash", token |-> token, role |-> "user"]

\* POST /auth/register from browser b with a valid email and password: the
\* insert is refused for an email already there (unique index), and then
\* no cookie is set
Register(b, email) ==
  /\ session[b].pc = "idle"
  /\ issued < MaxTokens
  /\ issued' = issued + 1
  /\ IF getUser(userCollection, email) = Absent
       THEN /\ userCollection' =
                 Append(userCollection, createUser(email, issued + 1))
            /\ session' = [session EXCEPT ![b].cookie = issued + 1]
       ELSE UNCHANGED <<userCollection, session>>
  /\ UNCHANGED <<analysisCollection, task, lastGet, intakeVars, relayVars,
                 readVars, lastAuth, clientVars>>

\* POST /auth/login from browser b: findUser resolves and the password is
\* compared; with no such user or a wrong password the answer is 401 and
\* nothing changes; otherwise the handler draws a token and starts
\* DB.updateUser
LoginFind(b, email, validPassword) ==
  /\ session[b].pc = "idle"
  /\ issued < MaxTokens
  /\ LET user == findUser(userCollection, "email", email) IN
     IF user = Absent \/ ~validPassword
       THEN UNCHANGED <<session, issued>>
       ELSE /\ issued' = issued + 1
            /\ session' = [session EXCEPT ![b].pc = "login",
                 ![b].user = Some([f \in DOMAIN user[1] \cup {"token"} |->
                                     IF f = "token" THEN issued + 1
                                     ELSE user[1][f]])]
  /\ UNCHANGED <<analysisCollection, task, lastGet, intakeVars, relayVars,
                 readVars, userCollection, lastAuth, clientVars>>

\* DB.updateUser resolves: the cookie is set
LoginUpdate(b) ==
  /\ session[b].pc = "login"
  /\ userCollection' = updateUser(userCollection, session[b].user[1])
  /\ session' = [session EXCEPT ![b].pc = "idle", ![b].user = Absent,
                                ![b].cookie = session[b].user[1].token]
  /\ UNCHANGED <<analysisCollection, task, lastGet, intakeVars, relayVars,
                 readVars, issued, lastAuth, clientVars>>

\* DELETE /auth/logout from browser b: findUser('token', cookie) resolves;
\* without a user the cookie is cleared and 204 answered, with one the
\* handler deletes the token of its object and starts DB.updateUser
LogoutFind(b) ==
  /\ session[b].pc = "idle"
  /\ LET user == findUser(userCollection, "token", session[b].cookie) IN
     session' = [session EXCEPT ![b] =
       IF user = Absent
         THEN [@ EXCEPT !.cookie = 0]
         ELSE [@ EXCEPT !.pc = "logout", !.presented = session[b].cookie,
                        !.user = Some(deleteToken(user[1]))]]
  /\ UNCHANGED <<analysisCollection, task, lastGet, intakeVars, relayVars,
                 readVars, userCollection, issued, lastAuth, clientVars>>

\* DB.updateUser resolves: res.clearCookie, 204
LogoutUpdate(b) ==
  /\ session[b].pc = "logout"
  /\ userCollection' = updateUser(userCollection, session[b].user[1])
  /\ session' = [session EXCEPT ![b] =
       [@ EXCEPT !.pc = "idle", !.user = Absent, !.cookie = 0,
                 !.presented = 0,
                 !.loggedOut = @ \cup {session[b].presented}]]
  /\ UNCHANGED <<analysisCollection, task, lastGet, intakeVars, relayVars,
                 readVars, issued, lastAuth, clientVars>>

\* verifyAuth for a request that carries token as its cookie (0 for none)
verifyAuth(coll, token) ==
  IF token = 0
    THEN [token |-> token, kind |-> "AUTH_REQUIRED", email |-> ""]
    ELSE IF getUserByToken(coll, token) = Absent
      THEN [token |-> token, kind |-> "INVALID_SESSION", email |-> ""]
      ELSE [token |-> token, kind |-> "Ok",
            email |-> getUserByToken(coll, token)[1].email]

\* a request to a route behind verifyAuth, from anyone who holds the token
Request(token) ==
  /\ lastAuth' = verifyAuth(userCollection, token)
  /\ UNCHANGED <<analysisCollection, task, lastGet, intakeVars, relayVars,
                 readVars, userCollection, session, issued, clientVars>>

(***************************************************************************)
(* SpecAuth: registrations, logins and logouts from the browsers, and      *)
(* requests that present any token given out so far.                       *)
(***************************************************************************)
NextAuth ==
  \/ \E b \in Browsers, email \in Submitters : Register(b, email)
  \/ \E b \in Browsers, email \in Submitters, validPassword \in BOOLEAN :
       LoginFind(b, email, validPassword)
  \/ \E b \in Browsers : LoginUpdate(b)
  \/ \E b \in Browsers : LogoutFind(b)
  \/ \E b \in Browsers : LogoutUpdate(b)
  \/ \E token \in 0..issued : Request(token)

SpecAuth == Init /\ [][NextAuth]_vars

(***************************************************************************)
(* WebSocketClient (src/utils/websocket.js), as the analyzer page uses it: *)
(* connect() once when the page mounts, disconnect() once when it          *)
(* unmounts.  A socket of wsClient.sockets is the browser's WebSocket:     *)
(*   readyState    CONNECTING, OPEN, CLOSING or CLOSED                     *)
(*   opened        its open event has fired                                *)
(*   disconnected  disconnect() has called close() on it                   *)
(* A timer is one setTimeout of attemptReconnect: its delay, the socket    *)
(* whose close event set it, and whether it has fired.                     *)
(***************************************************************************)
\* the WebSockets one client creates
MaxSockets == 7

maxReconnectAttempts == 5

reconnectDelay == 1000

MaxReached == "Max reconnection attempts reached"

NewWebSocket ==
  [readyState |-> "CONNECTING", opened |-> FALSE, disconnected |-> FALSE]

\* connect(): new WebSocket(this.url) and setupEventListeners(); the url of
\* the page is a valid one, so the constructor does not throw
connect(c) ==
  [c EXCEPT !.sockets = Append(@, NewWebSocket),
            !.socket = Len(c.sockets) + 1]

\* attemptReconnect with <= in its test
attemptReconnectInclusive(c, k) ==
  IF c.reconnectAttempts <= maxReconnectAttempts
    THEN [c EXCEPT !.reconnectAttempts = @ + 1,
                   !.timers = Append(@,
                     [delay |-> reconnectDelay * (c.reconnectAttempts + 1),
                      socket |-> k, fired |-> FALSE])]
    ELSE [c EXCEPT !.errors = Append(@, MaxReached)]

\* attemptReconnect(), called by the close handler of socket k
attemptReconnect(c, k) ==
  IF c.reconnectAttempts < maxReconnectAttempts
    THEN [c EXCEPT !.reconnectAttempts = @ + 1,
                   !.timers = Append(@,
                     [delay |-> reconnectDelay * (c.reconnectAttempts + 1),
                      socket |-> k, fired |-> FALSE])]
    ELSE [c EXCEPT !.errors = Append(@, MaxReached)]

\* analyzer.jsx:273: the page mounts and calls client.connect()
Mount ==
  /\ wsClient.connects = 0
  /\ wsClient' = [connect(wsClient) EXCEPT !.connects = 1]
  /\ UNCHANGED <<analysisCollection, task, lastGet, intakeVars, relayVars,
                 readVars, authVars>>

\* socket.onopen of socket k
SocketOpens(k) ==
  /\ wsClient.sockets[k].readyState = "CONNECTING"
  /\ wsClient' = [wsClient EXCEPT !.sockets[k].readyState = "OPEN",
                                  !.sockets[k].opened = TRUE,
                                  !.reconnectAttempts = 0]
  /\ UNCHANGED <<analysisCollection, task, lastGet, intakeVars, relayVars,
                 readVars, authVars>>

\* the connection of socket k ends.  The browser fires the error event
\* first when the connection failed (always so for a socket that was still
\* CONNECTING), then the close event: socket.onerror hands the event to the
\* error handlers, socket.onclose calls attemptReconnect()
SocketCloses(k, failed) ==
  /\ wsClient.sockets[k].readyState # "CLOSED"
  /\ failed \/ wsClient.sockets[k].readyState # "CONNECTING"
  /\ wsClient' = attemptReconnect(
       [wsClient EXCEPT !.sockets[k].readyState = "CLOSED",
                        !.errors = IF failed THEN Append(@, "error") ELSE @],
       k)
  /\ UNCHANGED <<analysisCollection, task, lastGet, intakeVars, relayVars,
                 readVars, authVars>>

\* a timer of attemptReconnect fires: () => this.connect()
TimerFires(t) ==
  /\ ~wsClient.timers[t].fired
  /\ Len(wsClient.sockets) < MaxSockets
  /\ wsClient' = connect([wsClient EXCEPT !.timers[t].fired = TRUE])
  /\ UNCHANGED <<analysisCollection, task, lastGet, intakeVars, relayVars,
                 readVars, authVars>>

\* analyzer.jsx:277: the page unmounts and calls client.disconnect():
\* this.socket.close() makes a connecting or open socket CLOSING and does
\* nothing to a closing or closed one
Unmount ==
  /\ wsClient.connects = 1
  /\ wsClient.disconnects = 0
  /\ wsClient' =
       IF wsClient.socket = 0 THEN [wsClient EXCEPT !.disconnects = 1]
       ELSE [wsClient EXCEPT
               !.disconnects = 1,
               !.sockets[wsClient.socket].disconnected = TRUE,
               !.sockets[wsClient.socket].readyState =
                  IF @ \in {"CONNECTING", "OPEN"} THEN "CLOSING" ELSE @]
  /\ UNCHANGED <<analysisCollection, task, lastGet, intakeVars, relayVars,
                 readVars, authVars>>

WebSockets == 1..Len(wsClient.sockets)

Timers == 1..Len(wsClient.timers)

(***************************************************************************)
(* SpecClient: one WebSocketClient from its construction.                  *)
(***************************************************************************)
NextClient ==
  \/ Mount
  \/ \E k \in WebSockets : SocketOpens(k)
  \/ \E k \in WebSockets, failed \in BOOLEAN : SocketCloses(k, failed)
  \/ \E t \in Timers : TimerFires(t)
  \/ Unmount

SpecClient == Init /\ [][NextClient]_vars

(***************************************************************************)
(* Properties.                                                             *)
(***************************************************************************)
\* the document the j-th submission inserted
Doc(j) == analysisCollection[j]

Terminal == {"completed", "failed"}

\* the batch (0-based) the k-th file belongs to
BatchOf(k) == (k - 1) \div batchSize

Settled(call) == call.st \in {"resolved", "rejected", "ignored"}

\* C1: every analysis document is in one of three shapes: pending with
\* neither results nor error, completed with results and no error, failed
\* with an error message and no results.
C1_RecordShapes ==
  \A p \in 1..Len(analysisCollection) :
    LET a == analysisCollection[p] IN
      \/ a.status = "pending" /\ a.results = Absent /\ a.error = Absent
      \/ a.status = "completed" /\ a.results # Absent /\ a.error = Absent
      \/ a.status = "failed" /\ a.error # Absent /\ a.results = Absent

\* C2: once a document is completed or failed, no step changes its status,
\* results or error; the results a read returned for a completed job are
\* the results the store keeps, and so are those of the next read of the job.
C2_IdempotentTerminality ==
  /\ [][\A p \in 1..Len(analysisCollection) :
          analysisCollection[p].status \in Terminal =>
            /\ analysisCollection'[p].status = analysisCollection[p].status
            /\ analysisCollection'[p].results = analysisCollection[p].results
            /\ analysisCollection'[p].error = analysisCollection[p].error]_vars
  /\ [][(/\ lastGet.kind = "Ok"
         /\ lastGet.body[1].status = "completed"
         /\ lastGet'.kind = "Ok"
         /\ lastGet'.id = lastGet.id)
        => lastGet'.body[1].results = lastGet.body[1].results]_vars
  /\ [](lastGet.kind = "Ok" /\ lastGet.body[1].status = "completed"
        => \A p \in Matching(analysisCollection, lastGet.id) :
             analysisCollection[p].results = lastGet.body[1].results)

\* a completed job has been read, and another job has failed since it was
\* inserted
C2_Witness ==
  /\ lastGet.kind = "Ok"
  /\ lastGet.body[1].status = "completed"
  /\ \E p \in 1..Len(analysisCollection) :
       /\ analysisCollection[p].id # lastGet.id
       /\ analysisCollection[p].status = "failed"

\* C3: the response {id, status: 'pending'} is sent while the job is
\* pending and no inference call has settled; the job leaves pending, and
\* calls settle, only after the response.
C3_RespondsWhilePending ==
  /\ [](\A j \in Jobs :
          (Doc(j).status # "pending"
             \/ \E k \in Files(j) : Settled(task[j].calls[k]))
          => task[j].response = Some([id |-> Doc(j).id, status |-> "pending"]))
  /\ [][\A j \in Jobs :
          (task[j].response = Absent /\ task'[j].response # Absent)
          => /\ analysisCollection'[j].status = "pending"
             /\ \A k \in Files(j) : ~Settled(task'[j].calls[k])
             /\ \E k \in Files(j) : task'[j].calls[k].st = "inflight"]_vars

\* the response has been sent, the job is pending and its call is in flight
C3_Witness ==
  \E j \in Jobs :
    /\ task[j].response = Some([id |-> Doc(j).id, status |-> "pending"])
    /\ Doc(j).status = "pending"
    /\ \E k \in Files(j) : task[j].calls[k].st = "inflight"

\* C4: when every inference call settles (and every started operation
\* finishes), the pending job of SpecRun eventually is completed or failed.
C4_EventuallyTerminal ==
  (analysisCollection[1].status = "pending")
    ~> (analysisCollection[1].status \in Terminal)

\* C5: no background chain ends in an unhandled rejection, and a chain that
\* ended after its catch handler received an error left the job failed.
C5_ErrorsRecorded ==
  \A j \in Jobs :
    /\ task[j].pc # "unhandled"
    /\ (task[j].pc = "done" /\ task[j].error # Absent)
         => Doc(j).status = "failed"

\* C6: when an inference call rejects, no file of a later batch is analysed,
\* no results are attached, and the chain ends with the job failed and its
\* error equal to the rejection's message.
C6_RejectionFailsJob ==
  \A j \in Jobs : \A k \in Files(j) :
    task[j].calls[k].st = "rejected" =>
      /\ \A k2 \in Files(j) :
           BatchOf(k2) > BatchOf(k) => task[j].calls[k2].st = "none"
      /\ Doc(j).results = Absent
      /\ task[j].pc \in {"done", "unhandled"} =>
           /\ Doc(j).status = "failed"
           /\ Doc(j).error = task[j].calls[k].msg

\* what GET /analysis/:id has to answer to reply r, given the collection
GetJobContract(r, coll) ==
  LET found == {p \in 1..Len(coll) : coll[p].id = r.id} IN
    /\ found = {} => r.kind = "NotFound" /\ r.body = Absent
    /\ \A p \in found :
         IF coll[p].userEmail = r.requester \/ role(r.requester) = "admin"
           THEN r.kind = "Ok" /\ r.body = <<coll[p]>>
           ELSE r.kind = "Forbidden" /\ r.body = Absent

\* C7: a read answers NotFound when no job has the id, Forbidden when the
\* job exists and the requester is neither its owner nor an admin, and the
\* stored document otherwise; no document is held by a reply to a requester
\* who is neither its owner nor an admin.
C7_GetJobAccess ==
  /\ [][lastGet' # lastGet => GetJobContract(lastGet', analysisCollection)]_vars
  /\ [](lastGet.body # Absent =>
          \/ lastGet.body[1].userEmail = lastGet.requester
          \/ role(lastGet.requester) = "admin")

\* a user who is neither the owner nor an admin asked for an existing job
C7_Witness ==
  /\ lastGet.kind = "Forbidden"
  /\ \E p \in 1..Len(analysisCollection) :
       /\ analysisCollection[p].id = lastGet.id
       /\ analysisCollection[p].userEmail # lastGet.requester

\* C8: a call of a later batch exists only when every call of the earlier
\* batches has resolved, and at most 3 calls of a job are in flight.
C8_BatchesSequential ==
  \A j \in Jobs :
    /\ \A k \in Files(j), k2 \in Files(j) :
         (BatchOf(k) < BatchOf(k2) /\ task[j].calls[k2].st # "none")
           => task[j].calls[k].st = "resolved"
    /\ Cardinality({k \in Files(j) : task[j].calls[k].st = "inflight"}) <= 3

\* a call of the second batch is in flight
C8_Witness ==
  \E j \in Jobs : \E k \in Files(j) :
    BatchOf(k) = 1 /\ task[j].calls[k].st = "inflight"

\* C9: a run of analyzeCode over N files that resolved started ceil(N/3)
\* batches, and its results list the N files once each, in scan order.
C9_RoundsAndOrder ==
  \A j \in Jobs :
    task[j].outcome = "resolved" =>
      LET n == Len(task[j].files) IN
        /\ task[j].rounds = (n + 2) \div 3
        /\ Len(task[j].results.files) = n
        /\ \A k \in 1..n : task[j].results.files[k].path = task[j].files[k]

\* a run over more than one batch of files resolved
C9_Witness ==
  \E j \in Jobs :
    /\ task[j].outcome = "resolved"
    /\ Len(task[j].files) > 3
    /\ Doc(j).status = "completed"

\* the findings an entry of the results has to hold for the findings returned
SameFindings(entry, returned) ==
  /\ Len(entry) = Len(returned)
  /\ \A x \in 1..Len(returned) :
       /\ entry[x].description = returned[x].description
       /\ entry[x].severity = toLowerCase(returned[x].severity)

\* the completion is JSON of the shape the prompt asks for: an object whose
\* vulnerabilities are findings with a severity
ExpectedShape(content) ==
  /\ content.json
  /\ content.type = "object"
  /\ \A x \in 1..Len(content.vulnerabilities) :
       content.vulnerabilities[x].severity # undefined

\* C10: when every call of a run resolved, each with JSON of the expected
\* shape or with text that is not JSON, the run resolves even if some
\* completion is not JSON; the entry of such a file holds the one synthetic
\* finding of severity info, the entry of every other file holds the
\* findings returned for it, and the job is completed with these results
\* once the store has accepted the write.
C10_MalformedResponseIsolated ==
  \A j \in Jobs :
    /\ (\A k \in Files(j) :
          /\ task[j].calls[k].st = "resolved"
          /\ \/ ExpectedShape(task[j].calls[k].content[1])
             \/ ~task[j].calls[k].content[1].json)
         => task[j].outcome = "resolved"
    /\ task[j].outcome = "resolved" =>
         /\ \A k \in Files(j) :
              LET content == task[j].calls[k].content[1]
                  entry == task[j].results.files[k].vulnerabilities
              IN IF content.json
                   THEN SameFindings(entry, content.vulnerabilities)
                   ELSE entry =
                     <<[description |-> "Failed to parse analysis results",
                        severity |-> "info"]>>
         /\ (task[j].pc = "done" /\ task[j].error = Absent)
              => /\ Doc(j).status = "completed"
                 /\ Doc(j).results = Some(task[j].results)

\* a job completed whose run had a completion that is not JSON next to one
\* that is
C10_Witness ==
  \E j \in Jobs :
    /\ Doc(j).status = "completed"
    /\ \E k \in Files(j), k2 \in Files(j) :
         /\ BatchOf(k) = BatchOf(k2)
         /\ ~task[j].calls[k].content[1].json
         /\ task[j].calls[k2].content[1].json

\* C11: only a rejected inference call makes a run fail; a completion that
\* is JSON of another shape than the expected one is treated like text that
\* is not JSON: the run resolves and the entry of that file holds the
\* synthetic finding.
C11_OnlyTransportErrorsFail ==
  \A j \in Jobs :
    /\ task[j].outcome = "rejected"
         => \E k \in Files(j) : task[j].calls[k].st = "rejected"
    /\ task[j].outcome = "resolved" =>
         \A k \in Files(j) :
           LET content == task[j].calls[k].content[1] IN
           (content.json /\ ~ExpectedShape(content)) =>
             task[j].results.files[k].vulnerabilities =
               <<[description |-> "Failed to parse analysis results",
                  severity |-> "info"]>>

\* the findings of one file: those its completion lists, or the one
\* synthetic finding (of severity info) when the completion is not JSON
FindingsOf(content) ==
  IF content.json THEN content.vulnerabilities
  ELSE <<[severity |-> "info"]>>

\* the findings of run j, as (file, position) pairs
Returned(j) ==
  {<<k, x>> \in Files(j) \X (1..2) :
     x <= Len(FindingsOf(task[j].calls[k].content[1]))}

\* those whose severity is name, compared case-insensitively
ReturnedAs(j, name) ==
  {f \in Returned(j) :
     LET severity == FindingsOf(task[j].calls[f[1]].content[1])[f[2]].severity
     IN (name = "high" /\ severity \in {"high", "High", "HIGH"})
        \/ (name = "medium" /\ severity \in {"medium", "Medium", "MEDIUM"})}

\* the findings in the per-file list of the results of run j
Listed(j) ==
  {<<k, x>> \in Files(j) \X (1..2) :
     /\ k <= Len(task[j].results.files)
     /\ x <= Len(task[j].results.files[k].vulnerabilities)}

\* C12: in the result of a run that resolved, the summary's highSeverity
\* (mediumSeverity) is the number of findings whose severity is high
\* (medium) whatever its case, lowSeverity is the number of all the others
\* (low, critical, info, ...), and the three add up to the number of
\* findings in the per-file list.
C12_SummaryCounts ==
  \A j \in Jobs :
    task[j].outcome = "resolved" =>
      LET summary == task[j].results.summary IN
        /\ summary.highSeverity = Cardinality(ReturnedAs(j, "high"))
        /\ summary.mediumSeverity = Cardinality(ReturnedAs(j, "medium"))
        /\ summary.lowSeverity =
             Cardinality(Returned(j) \ (ReturnedAs(j, "high")
                                          \cup ReturnedAs(j, "medium")))
        /\ summary.highSeverity + summary.mediumSeverity
             + summary.lowSeverity = Cardinality(Listed(j))

\* a run resolved that counted a High, a medium, a Critical and a synthetic
\* info finding
C12_Witness ==
  \E j \in Jobs :
    /\ task[j].outcome = "resolved"
    /\ task[j].results.summary.highSeverity > 0
    /\ task[j].results.summary.mediumSeverity > 0
    /\ \E f \in Returned(j) :
         FindingsOf(task[j].calls[f[1]].content[1])[f[2]].severity = "Critical"
    /\ \E f \in Returned(j) :
         FindingsOf(task[j].calls[f[1]].content[1])[f[2]].severity = "info"

\* the job store holds exactly the documents of the requests that inserted
\* one: request x has none
NoJobFor(x) ==
  /\ request[x].job = 0
  /\ Len(analysisCollection) =
       Cardinality({y \in Requests : request[y].job # 0})
  /\ \A j \in Jobs : \E y \in Requests \ {x} : request[y].job = j

\* C13: a request whose scan returned no code file never gets a document
\* nor a background run (so no inference call), and is answered with the
\* NO_CODE_FILES error once its directory is removed.
C13_NoCodeFilesNoJob ==
  \A x \in Requests :
    (request[x].scanned /\ request[x].files = <<>>) =>
      /\ NoJobFor(x)
      /\ request[x].pc \in {"rm", "answered"}
      /\ (request[x].pc = "answered" /\ request[x].tempDir = "removed") =>
           request[x].response =
             Some(APIError("No code files found", 400, "NO_CODE_FILES"))

\* a request without code files was answered while another request's job
\* was started
C13_Witness ==
  \E x \in Requests, y \in Requests :
    /\ request[x].scanned /\ request[x].files = <<>>
    /\ request[x].pc = "answered" /\ request[x].tempDir = "removed"
    /\ request[y].job # 0
    /\ task[request[y].job].pc = "analyzing"

\* C14: a request whose extraction failed is answered with an error in the
\* turn of the failure and gets no document and no background run.
C14_ExtractionFailureNoJob ==
  \A x \in Requests :
    request[x].extractFailed =>
      /\ NoJobFor(x)
      /\ request[x].pc = "answered"
      /\ request[x].response # Absent
      /\ request[x].response[1].status >= 400

\* an extraction failed after a code file had been written, next to a
\* request whose job was started
C14_Witness ==
  \E x \in Requests, y \in Requests :
    /\ request[x].extractFailed
    /\ CodeFiles(request[x].dir) # {}
    /\ request[x].pc = "answered"
    /\ request[y].job # 0
    /\ task[request[y].job].pc = "analyzing"

\* C15: an answered request that created a temporary directory has removed
\* it.
C15_TempDirRemoved ==
  \A x \in Requests :
    (request[x].pc = "answered" /\ request[x].tempDir # "none") =>
      request[x].tempDir = "removed"

\* C19: an archive with an escaping entry is rejected: nothing is written
\* outside the directory, the request is answered with the extraction
\* error, and no document is inserted for it.
C19_NoPathEscape ==
  \A x \in Requests :
    (\E k \in 1..Len(request[x].archive) :
       request[x].archive[k] = "escaping") =>
      /\ ~request[x].outside
      /\ request[x].job = 0
      /\ request[x].pc \notin {"scan", "rm", "addAnalysis", "inserted"}
      /\ (request[x].pc = "answered" /\ request[x].dir # <<>>) =>
           request[x].extractFailed

\* C20: a scan that met an unreadable file goes on: it returns every other
\* code file of the directory and the request goes on with them.
C20_UnreadableFileSkipped ==
  \A x \in Requests :
    request[x].unreadable # 0 =>
      /\ request[x].scanned
      /\ Len(request[x].files) =
           Cardinality(CodeFiles(request[x].dir) \ {request[x].unreadable})
      /\ (request[x].pc = "answered" /\ request[x].files # <<>>) =>
           request[x].job # 0

\* C16: an inbound message that parses as JSON is sent once to every other
\* socket that is OPEN at that moment, and to no other socket, the sender
\* included.
C16_RelayFanOut ==
  lastMessage # <<>> =>
    LET m == lastMessage[1] IN
    m.data.json =>
      \A k \in DOMAIN m.states :
        m.relayed[k] =
          IF k # m.from /\ m.states[k] = "OPEN" THEN 1 ELSE 0

\* C17: an inbound payload that does not parse as JSON gets one error frame
\* sent to its sender and nothing sent to any other socket; a payload that
\* parses gets no error frame.
C17_RelayErrorPath ==
  lastMessage # <<>> =>
    LET m == lastMessage[1] IN
    IF ~m.data.json
      THEN \A k \in DOMAIN m.states :
             /\ m.errors[k] = IF k = m.from THEN 1 ELSE 0
             /\ m.relayed[k] = 0
      ELSE \A k \in DOMAIN m.states : m.errors[k] = 0

\* the step is a tick of the interval
IsTick ==
  /\ Len(socket') = Len(socket)
  /\ \E k \in Sockets : socket'[k].ticks # socket[k].ticks

\* what a tick does to the connected socket k
TickChecks(k) ==
  IF socket[k].pinged /\ ~socket[k].pong
    THEN /\ socket'[k].readyState = "CLOSING"
         /\ ~socket'[k].pinged
    ELSE /\ socket'[k].readyState = "OPEN"
         /\ socket'[k].isAlive = FALSE
         /\ socket'[k].pinged

\* C18: a tick terminates every connected socket that was pinged by the
\* tick before and sent no pong since, without pinging it, and marks every
\* other connected socket not alive and pings it; a socket that is closing
\* or closed is not pinged.  A socket that never sent a pong is not open any
\* more after the second tick that followed its connection.
C18_Heartbeat ==
  /\ [][IsTick =>
         \A k \in Sockets :
           /\ socket[k].readyState = "OPEN" => TickChecks(k)
           /\ socket[k].readyState = "CLOSING" => ~socket'[k].pinged
           /\ socket[k].readyState = "CLOSED" => socket'[k] = socket[k]]_vars
  /\ [](\A k \in Sockets :
          (socket[k].ticks >= 2 /\ ~socket[k].answered)
            => socket[k].readyState # "OPEN")

\* after two ticks a socket that never answered is gone and one that
\* answered the first ping is open and pinged again
C18_Witness ==
  \E k \in Sockets, k2 \in Sockets :
    /\ socket[k].ticks = 2 /\ ~socket[k].answered
    /\ socket[k].readyState # "OPEN"
    /\ socket[k2].ticks = 2 /\ socket[k2].answered
    /\ socket[k2].readyState = "OPEN" /\ socket[k2].pinged

\* the fields no update names: the identifiers, the owner, the submission
\* and creation dates and the file list
SameIdentity(a, b) ==
  /\ b.id = a.id
  /\ b._id = a._id
  /\ b.userEmail = a.userEmail
  /\ b.date = a.date
  /\ b.createdAt = a.createdAt
  /\ b.files = a.files

\* C21: whatever the interleaving of the submissions and background chains
\* of several jobs, a step never removes a document and never changes a
\* document's identifiers, owner, dates of submission and creation or file
\* list; a step that changes a document is the terminal write of that
\* document's own job, it leaves the status terminal, and every other
\* document is left exactly as it was.
C21_TerminalWriteFrame ==
  [][/\ Len(analysisCollection') >= Len(analysisCollection)
     /\ \A p \in 1..Len(analysisCollection) :
          /\ SameIdentity(analysisCollection[p], analysisCollection'[p])
          /\ analysisCollection'[p] # analysisCollection[p] =>
               /\ task[p].id = analysisCollection[p].id
               /\ task[p].pc \in {"writeCompleted", "writeFailed"}
               /\ task'[p].pc = "done"
               /\ analysisCollection'[p].status \in Terminal
               /\ \A q \in 1..Len(analysisCollection) \ {p} :
                    analysisCollection'[q] = analysisCollection[q]]_vars

\* the second job's terminal write landed while the first job was still
\* analysing, and the first job's document is as it was inserted
C21_Witness ==
  /\ Len(analysisCollection) = 2
  /\ task[1].pc = "analyzing"
  /\ Doc(1).status = "pending"
  /\ Doc(1).updatedAt = Doc(1).createdAt
  /\ Doc(2).status \in Terminal
  /\ Doc(2).updatedAt > Doc(2).createdAt

\* C23: at the step that writes a job's terminal state, no inference call
\* of that job is still in flight; when one call of a batch rejects, the
\* job is not marked failed while a sibling call is unsettled.
C23_NoCallInFlightAtTerminalWrite ==
  [][\A j \in Jobs :
       (Doc(j).status \notin Terminal /\
        analysisCollection'[j].status \in Terminal) =>
          \A k \in Files(j) : task[j].calls[k].st # "inflight"]_vars

\* the requests whose insert was acknowledged
Inserted == {x \in Requests : request[x].job # 0}

\* C24: the calls of a job are created only in a step that starts with the
\* job's pending document already in the collection; a request whose insert
\* is rejected is answered with the error in that same step, which inserts
\* nothing and starts no background chain, and no chain ever exists for it;
\* the identifier every background chain writes to names a document of the
\* collection.
C24_InsertBeforeDispatch ==
  /\ [][\A j \in 1..Len(task') :
          (task'[j].rounds > 0 /\ (j \notin Jobs \/ task[j].rounds = 0)) =>
             /\ j \in Jobs
             /\ Matching(analysisCollection, task[j].id) # {}
             /\ getAnalysisById(analysisCollection, task[j].id)[1].status
                  = "pending"]_vars
  /\ [][\A x \in Requests :
          (request[x].pc = "addAnalysis" /\ request'[x].pc = "answered") =>
             /\ request'[x].response = Some(InternalError(StoreError))
             /\ request'[x].job = 0
             /\ UNCHANGED <<analysisCollection, task>>]_vars
  /\ [](/\ Len(task) = Cardinality(Inserted)
        /\ Len(analysisCollection) = Cardinality(Inserted)
        /\ \A x \in Requests :
             (request[x].response # Absent /\
              request[x].response[1].status # 200) => request[x].job = 0
        /\ \A j \in Jobs : Matching(analysisCollection, task[j].id) # {})

\* one request was refused by the store and has no job; another was
\* inserted, its calls were created and it was answered
C24_Witness ==
  \E x, y \in Requests :
    /\ request[x].response = Some(InternalError(StoreError))
    /\ request[x].date # 0
    /\ request[x].job = 0
    /\ request[y].job # 0
    /\ request[y].response = Some(Started)
    /\ task[request[y].job].rounds = 1
    /\ Len(task) = 1

\* the tick calls terminate() on socket k
Terminates(k) ==
  /\ IsTick
  /\ socket[k].readyState # "CLOSED"
  /\ socket[k].isAlive = FALSE

\* C28: the interval never terminates an open client whose pong arrived
\* after the latest ping and before the tick, and never terminates a client
\* at the first tick after its connection; it terminates a client only if
\* an earlier tick pinged it and no pong of it has arrived since.
C28_TerminatesOnlyUnanswered ==
  [][\A k \in Sockets :
       /\ (IsTick /\ socket[k].readyState = "OPEN" /\ socket[k].pong) =>
            socket'[k].readyState = "OPEN"
       /\ (IsTick /\ socket[k].readyState = "OPEN" /\ socket[k].ticks = 0) =>
            socket'[k].readyState = "OPEN"
       /\ Terminates(k) =>
            /\ socket[k].ticks >= 1
            /\ ~socket[k].pong
            /\ socket[k].readyState = "OPEN" => socket[k].pinged
            /\ socket'[k].readyState = "CLOSING"]_vars

\* one client answered both pings and is open after two ticks; another
\* connected later, has not answered, and is open after its first tick
C28_Witness ==
  \E k \in Sockets, k2 \in Sockets :
    /\ socket[k].ticks = 2 /\ socket[k].pong
    /\ socket[k].readyState = "OPEN" /\ socket[k].isAlive
    /\ socket[k2].ticks = 1 /\ ~socket[k2].answered
    /\ socket[k2].readyState = "OPEN" /\ ~socket[k2].isAlive

\* the identifiers of the documents user u owns
OwnIds(u) == {analysisCollection[p]._id : p \in OwnedBy(analysisCollection, u)}

\* the history read that this step answers
HistoryAnswer == lastHistory'[1]

\* C22: the list a history read answers holds one entry for each document
\* the requester owns, whatever the document's status, and no entry of a
\* document of another user; each entry shows its document's date, files,
\* status and results; the entries are in order of submission date, newest
\* first.
C22_HistoryOwnJobsNewestFirst ==
  [][lastHistory' # lastHistory =>
       LET h == HistoryAnswer.entries
           u == HistoryAnswer.requester
       IN /\ {h[i]._id : i \in 1..Len(h)} = OwnIds(u)
          /\ Len(h) = Cardinality(OwnIds(u))
          /\ \A i \in 1..Len(h) :
               \E p \in OwnedBy(analysisCollection, u) :
                 h[i] = Projection(analysisCollection[p])
          /\ \A i, j \in 1..Len(h) : i < j => h[i].date >= h[j].date]_vars

\* a history of two jobs of the requester: the one inserted second was
\* submitted first and is listed second, still pending; the other is terminal
C22_Witness ==
  /\ lastHistory # Absent
  /\ Len(lastHistory[1].entries) = 2
  /\ lastHistory[1].entries[1].date > lastHistory[1].entries[2].date
  /\ lastHistory[1].entries[1]._id > lastHistory[1].entries[2]._id
  /\ lastHistory[1].entries[1].status \in Terminal
  /\ lastHistory[1].entries[2].status = "pending"

\* C25: when the owner opens an entry of the history list through GET
\* /analysis/:id with the identifier the entry carries, the answer is the
\* document of that entry, never NotFound.
C25_HistoryEntriesOpen ==
  [][(lastGet' # lastGet /\ lastHistory # Absent /\
      \E k \in 1..Len(lastHistory[1].entries) :
        lastHistory[1].entries[k]._id = lastGet'.id) =>
       /\ lastGet'.kind = "Ok"
       /\ lastGet'.body[1]._id = lastGet'.id]_vars

\* the documents of user u that the pipeline completed
CompletedOf(u) ==
  {p \in OwnedBy(analysisCollection, u) :
     analysisCollection[p].status = "completed"}

\* C26: a report read by the owner of a completed job does not answer
\* NotFound, and a statistics read counts in totalAnalyses every job of the
\* requester that the pipeline completed.
C26_CompletedJobsVisible ==
  [][/\ lastReport' # lastReport =>
          ((\E p \in CompletedOf(lastReport'.requester) :
              analysisCollection[p].id = lastReport'.id)
             => lastReport'.kind # "NotFound")
     /\ lastStats' # lastStats =>
          lastStats'[1].totalAnalyses
            = Cardinality(CompletedOf(lastStats'[1].requester))]_vars

\* the tokens some browser has logged out with
LoggedOut == UNION {session[b].loggedOut : b \in Browsers}

\* C27: once a logout made with a valid token has been answered, no stored
\* user carries that token, and every later request that presents it is
\* rejected by verifyAuth.
C27_LoggedOutTokenRejected ==
  /\ [](\A token \in LoggedOut :
          getUserByToken(userCollection, token) = Absent)
  /\ [][(lastAuth' # lastAuth /\ lastAuth'.token \in LoggedOut) =>
          lastAuth'.kind # "Ok"]_vars

\* C29: once disconnect() has been called, no step schedules a
\* reconnection and no step calls connect().
C29_StaysDisconnected ==
  [][wsClient.disconnects > 0 =>
       /\ Len(wsClient'.timers) = Len(wsClient.timers)
       /\ Len(wsClient'.sockets) = Len(wsClient.sockets)]_vars

\* the last socket whose open event fired, 0 if none did
LastOpened ==
  LET S == {k \in WebSockets : wsClient.sockets[k].opened} IN
  IF S = {} THEN 0 ELSE CHOOSE k \in S : \A q \in S : q <= k

\* the close events since the last open event
ConsecutiveCloses ==
  Cardinality({k \in WebSockets :
                 /\ k >= LastOpened
                 /\ wsClient.sockets[k].readyState = "CLOSED"})

\* the close event of socket k fires in this step
Closes(k) ==
  /\ wsClient.sockets[k].readyState # "CLOSED"
  /\ wsClient'.sockets[k].readyState = "CLOSED"

\* C30: reconnectAttempts is always between 0 and maxReconnectAttempts (5);
\* every open event sets it to 0; the k-th close in a row since the last
\* open, for k up to 5, schedules one connect with delay k * reconnectDelay
\* and notifies no 'Max reconnection attempts reached'; once five closes in
\* a row have happened, a further close schedules no connect and notifies
\* the error handlers of 'Max reconnection attempts reached'.
C30_ReconnectBounded ==
  /\ [](wsClient.reconnectAttempts \in 0..maxReconnectAttempts)
  /\ [][\A k \in WebSockets :
          (wsClient.sockets[k].readyState = "CONNECTING" /\
           wsClient'.sockets[k].readyState = "OPEN") =>
             wsClient'.reconnectAttempts = 0]_vars
  /\ [][\A k \in WebSockets :
          Closes(k) =>
            IF ConsecutiveCloses >= 5
              THEN /\ wsClient'.timers = wsClient.timers
                   /\ wsClient'.errors # <<>>
                   /\ Len(wsClient'.errors) > Len(wsClient.errors)
                   /\ wsClient'.errors[Len(wsClient'.errors)] = MaxReached
              ELSE /\ Len(wsClient'.timers) = Len(wsClient.timers) + 1
                   /\ SubSeq(wsClient'.timers, 1, Len(wsClient.timers))
                        = wsClient.timers
                   /\ wsClient'.timers[Len(wsClient'.timers)] =
                        [delay |-> reconnectDelay * (ConsecutiveCloses + 1),
                         socket |-> k, fired |-> FALSE]
                   /\ wsClient'.reconnectAttempts = ConsecutiveCloses + 1
                   /\ \A e \in 1..Len(wsClient'.errors) :
                        wsClient'.errors[e] = MaxReached =>
                          e <= Len(wsClient.errors) /\
                          wsClient.errors[e] = MaxReached]_vars

\* the first connection opened and was lost, the five reconnections that
\* followed were scheduled after 1000, 2000, ... 5000 ms and all failed, and
\* the sixth close notified the error handlers and scheduled nothing
C30_Witness ==
  /\ wsClient.sockets # <<>>
  /\ wsClient.sockets[1].opened
  /\ Len(wsClient.sockets) = 6
  /\ ConsecutiveCloses = 6
  /\ wsClient.reconnectAttempts = maxReconnectAttempts
  /\ Len(wsClient.timers) = 5
  /\ \A t \in Timers : /\ wsClient.timers[t].fired
                       /\ wsClient.timers[t].delay = t * reconnectDelay
  /\ \E e \in 1..Len(wsClient.errors) : wsClient.errors[e] = MaxReached

====
